---- MODULE Spec2Model ----
(***************************************************************************)
(* State-machine model of src/mainapp.py: the SCPI instrument client, the  *)
(* initialization worker (AsyncWorker.run), the periodic telemetry poll    *)
(* (MainWindow.log_data driven by a QTimer), and the manual command.       *)
(*                                                                         *)
(* Scheduling.  The program has one thread: the Qt/asyncio event loop.     *)
(* Button handlers and timer timeouts are event-loop callbacks; every      *)
(* asyncio.ensure_future(...) queues a task whose body is run by a later   *)
(* callback.  SCPIClient does its I/O with ordinary blocking socket calls  *)
(* (socket.connect / sendall / recv under settimeout(5)), and no coroutine *)
(* of the file awaits anything but these coroutines, so no `await` of the  *)
(* program ever hands control back to the event loop: a task that has      *)
(* begun keeps the thread until it returns or raises.  The model keeps the *)
(* position of every task between socket operations (a send_command is    *)
(* two steps: up to the return of sendall, and the read of the response),  *)
(* and AwaitSuspends states whether an await gives the thread away.        *)
(*                                                                         *)
(* The widgets are left out: a message box is taken to return at once, and *)
(* update_logging_display to return without raising.  Instruments answer,  *)
(* stay silent, or fail, nondeterministically at every socket operation.   *)
(***************************************************************************)
EXTENDS Integers, Sequences, FiniteSets, TLC

(* ------------------------------ bounds -------------------------------- *)
MaxDevices == 3     \* longest device list of a configuration document (InitSpec)
MaxDocument == 1    \* longest device list of a configuration document (Spec)
MaxLogDocument == 2 \* longest device list of a configuration document (LogSpec)
MaxLoads   == 1     \* configuration documents loaded
MaxRuns    == 1     \* initialization runs started (Spec)
MaxReruns  == 2     \* initialization runs started (ReinitSpec)
MaxTimers  == 2     \* QTimer objects created by async_start_logging
MaxCycles  == 2     \* timer ticks handled
MaxManual  == 1     \* manual commands issued
MaxFaults  == 1     \* empty responses and transport faults in the whole program
MaxClients == 2     \* SCPIClient objects made (ClientSpec)
MaxSent    == 2     \* lines written on one link (ClientSpec)

VARIABLES
  devices,        \* MainWindow.devices (<<>> stands for None)
  worker,         \* MainWindow.worker: index into workers, 0 before the first
  workers,        \* every AsyncWorker created, in creation order
  clients,        \* every SCPIClient created, in creation order
  scpi_clients,   \* MainWindow.scpi_clients: the worker whose list it aliases, 0 for []
  tasks,          \* asyncio tasks not yet finished, in creation order
  timers,         \* every QTimer created: TRUE while active
  logging_timer,  \* MainWindow.logging_timer: index into timers, 0 for None
  csv,            \* rows of log_data.csv
  hist            \* bookkeeping for the properties and for the bounds of Next

vars == <<devices, worker, workers, clients, scpi_clients, tasks, timers,
          logging_timer, csv, hist>>

(* ------------------------- configuration data ------------------------- *)
LoadChannel(n, t, v) == [number |-> n, type |-> t, value |-> v]
SupplyChannel(n, v)  == [number |-> n, value |-> v]

\* An <ElectronicLoad> record: the dict of lines 54-59 ('channels' key present).
LoadDevice(chs) ==
  [kind |-> "Load", channels |-> chs, voltage_channels |-> <<>>, current_channels |-> <<>>]
\* A <PowerSupply> record: the dict of lines 71-77 (no 'channels' key).
SupplyDevice(vs, cs) ==
  [kind |-> "Supply", channels |-> <<>>, voltage_channels |-> vs, current_channels |-> cs]

LoadRecords ==
  { LoadDevice(<<LoadChannel(1, "VOLT", 5), LoadChannel(2, "CURR", 1)>>),
    LoadDevice(<<LoadChannel(3, "RES", 7)>>) }
SupplyRecords ==
  { SupplyDevice(<<SupplyChannel(1, 5), SupplyChannel(2, 6)>>, <<SupplyChannel(1, 1)>>) }

\* The i-th device record of a document has id and address i.
Addressed(d, i) ==
  [id |-> i, ip |-> i, kind |-> d.kind, channels |-> d.channels,
   voltage_channels |-> d.voltage_channels, current_channels |-> d.current_channels]

\* Configuration documents with at most n device records.
Documents(n) ==
  { [loads    |-> [i \in 1..a |-> Addressed(l[i], i)],
     supplies |-> [i \in 1..b |-> Addressed(s[i], a + i)]] :
      <<a, b, l, s>> \in
        { x \in UNION { {a} \X {b} \X [1..a -> LoadRecords] \X [1..b -> SupplyRecords] :
                          <<a, b>> \in (0..n) \X (0..n) } : x[1] + x[2] <= n } }

\* read_devices_from_xml: all loads in document order, then all supplies.
read_devices_from_xml(doc) == doc.loads \o doc.supplies

\* What the path of load_xml can name: a document that parses, nothing (the
\* field is empty), a file that does not exist, a file that is not XML, and a
\* document with a device record that lacks a required element.
Parsed(doc) == [kind |-> "parsed", doc |-> doc]
Unreadable(kind) == [kind |-> kind, doc |-> [loads |-> <<>>, supplies |-> <<>>]]
Files(n) ==
  { Parsed(doc) : doc \in Documents(n) }
    \cup { Unreadable(k) : k \in {"no path", "not found", "malformed", "missing field"} }
\* The exception read_devices_from_xml raises on such a file: ET.parse raises
\* FileNotFoundError or ParseError (line 49); device.find(...) of an absent
\* element is None, and None.text raises AttributeError (lines 55-57, 60-65).
ReadRaises(file) ==
  IF file.kind = "not found" THEN "FileNotFoundError"
  ELSE IF file.kind = "malformed" THEN "ParseError"
  ELSE IF file.kind = "missing field" THEN "AttributeError"
  ELSE ""

(* ------------------------------ SCPIClient ---------------------------- *)
\* A command line; the fields a command does not carry are "" / -1.
Cmd(op, t, n, v) == [op |-> op, type |-> t, number |-> n, value |-> v]

\* SCPIClient.__init__, plus, for the properties: the lines written on the
\* link (sent), the channel number each was issued for (issued, -1: none), the
\* requests written whose response has not been read (pending), who made the
\* link (worker w for device idx; w = 0: the manual command), how the
\* identification query ended (idn) and how the pass of run that made it ended.
SCPIClient(ip, channels, w, idx) ==
  [ip |-> ip, sock |-> "None", channels |-> channels, sent |-> <<>>, issued |-> <<>>,
   pending |-> 0, w |-> w, idx |-> idx, idn |-> "", ended |-> ""]
Ended(c, how) == [c EXCEPT !.ended = how]

\* connect: self.sock is assigned the new socket before it is connected, so a
\* refused connection leaves an unconnected socket object in self.sock.
connect(c, ok) == [c EXCEPT !.sock = IF ok THEN "open" ELSE "failed"]

\* What one send_command call can do on link c: "resp" a non-empty response,
\* "empty" an empty one, "connfail" the implicit connect refused, "sendfault"
\* sendall failed, "recvfault" recv failed or timed out.
Outcomes(c) ==
  IF c.sock = "None" THEN {"resp", "empty", "connfail", "sendfault", "recvfault"}
  ELSE IF c.sock = "failed" THEN {"sendfault"}
  ELSE {"resp", "empty", "sendfault", "recvfault"}

\* self.sock.sendall(...) returned (line 31): the line is on the wire and its
\* response is awaited.  n: the channel the caller issued the command for.
sendall(c, cmd, n) ==
  [c EXCEPT !.sent = Append(@, cmd), !.issued = Append(@, n), !.pending = @ + 1]
\* read_response returned or raised (lines 36-41): the request is over.
read_response(c) == [c EXCEPT !.pending = @ - 1]

\* send_command: the link after the whole call (lines 27-34).
send_command(c, cmd, n, out) ==
  LET c1 == IF c.sock = "None" THEN connect(c, out # "connfail") ELSE c
  IN  IF out \in {"connfail", "sendfault"} THEN c1
      ELSE read_response(sendall(c1, cmd, n))

\* The socket operations that one send_command call makes on link c when it
\* ends with out, in order (lines 28-32, 38).
SocketOps(c, out) ==
  (IF c.sock = "None" THEN <<"connect">> ELSE <<>>)
    \o (IF out = "connfail" THEN <<>>
        ELSE IF out = "sendfault" THEN <<"sendall">>
        ELSE <<"sendall", "recv">>)

\* A task inside send_command is either before sendall (io = "send") or in
\* read_response (io = "recv"); the ways the call can still end from there.
IoOutcomes(c, io) ==
  IF io = "send" THEN Outcomes(c) \cap {"connfail", "sendfault"}
  ELSE {"resp", "empty", "recvfault"}
\* The link after the call has ended with out from there.
AfterIo(c, cmd, n, out, io) ==
  IF io = "send" THEN send_command(c, cmd, n, out) ELSE read_response(c)

\* send_command raises ConnectionError.
Raises(out) == out \in {"connfail", "sendfault", "recvfault"}

ResponseNeverEmpty(cmd, out) == cmd.op
\* The decoded, stripped response: the instrument's answer to the query, or "".
Response(cmd, out) == IF out = "resp" THEN cmd.op ELSE ""

\* The classes an exception of class exc is an instance of.
Mro(exc) ==
  IF exc = "ConnectionError" THEN {"ConnectionError", "OSError", "Exception"}
  ELSE IF exc = "FileNotFoundError" THEN {"FileNotFoundError", "OSError", "Exception"}
  ELSE IF exc = "ParseError" THEN {"ParseError", "SyntaxError", "Exception"}
  ELSE IF exc = "AttributeError" THEN {"AttributeError", "Exception"}
  ELSE {exc}
\* An except clause naming class handler catches an exception of class exc.
Caught(handler, exc) == handler \in Mro(exc)
\* The except clauses of run (line 132) and of log_data (line 561).
run_except_other == "TimeoutError"
run_except == "ConnectionError"
log_except_other == "TimeoutError"
log_except == "Exception"
\* The except clauses of load_xml (lines 432, 434).
load_except == {"FileNotFoundError", "ParseError"}

\* close (lines 43-46).
close(c) == IF c.sock # "None" THEN [c EXCEPT !.sock = "None"] ELSE c

(* ------------------------------ scheduling ---------------------------- *)
\* A blocking socket call never returns control to the event loop.
AwaitSuspendsYes == TRUE
AwaitSuspends == FALSE

Task(kind) ==
  [kind |-> kind, pc |-> "new", w |-> 0, idx |-> 0, client |-> 0,
   list |-> "", ch |-> 0, k |-> 0, ci |-> 0, cyc |-> 0, io |-> "send",
   current |-> "", voltage |-> ""]

Started(t) == t.pc # "new"

\* The event loop is running and no task holds the thread: the loop can run
\* a handler or a timer.
ThreadFree ==
  /\ hist.up = "up"
  /\ \A j \in DOMAIN tasks : Started(tasks[j]) => AwaitSuspends

\* The event loop may run the next step of task i.
CanStep(i) ==
  /\ hist.up = "up"
  /\ i \in DOMAIN tasks
  /\ \A j \in DOMAIN tasks \ {i} : Started(tasks[j]) => AwaitSuspends
  /\ ~Started(tasks[i]) => \A j \in 1..(i - 1) : Started(tasks[j])

RemoveAt(s, i) == [j \in 1..(Len(s) - 1) |-> IF j < i THEN s[j] ELSE s[j + 1]]

(* --------------------------------- Init ------------------------------- *)
Init ==
  /\ devices = <<>>
  /\ worker = 0
  /\ workers = <<>>
  /\ clients = <<>>
  /\ scpi_clients = 0
  /\ tasks = <<>>
  /\ timers = <<>>
  /\ logging_timer = 0
  /\ csv = <<>>
  /\ hist = [up |-> "up", faults |-> 0, loads |-> 0, manuals |-> 0, stopped |-> FALSE,
             rowcyc |-> <<>>, rowsel |-> <<>>, cycles |-> <<>>,
             load |-> [kind |-> "", before |-> <<>>, reported |-> FALSE],
             call |-> [cid |-> 0, sock |-> "", ops |-> <<>>, raised |-> ""]]

(* ------------------------------- load_xml ----------------------------- *)
\* load_xml (lines 422-435).  hist.load: the file of the last call, the
\* device list before it, and whether a message box told the operator of a
\* failure.  An exception that no clause catches leaves the slot: PyQt5 from
\* 5.5 on then aborts the process, earlier versions print the traceback and
\* carry on.
load_xml(file) ==
  /\ ThreadFree
  /\ LET exc     == ReadRaises(file)
         handled == \E h \in load_except : Caught(h, exc)
         h1      == [hist EXCEPT !.loads = @ + 1,
                                 !.load = [kind |-> file.kind, before |-> devices,
                                           reported |-> file.kind = "no path"
                                                          \/ (exc # "" /\ handled)]]
     IN  IF file.kind = "no path" \/ (exc # "" /\ handled)
         THEN /\ devices' = devices
              /\ hist' = h1
         ELSE IF exc # ""
         THEN /\ devices' = devices
              /\ \E up \in {"up", "aborted"} : hist' = [h1 EXCEPT !.up = up]
         ELSE /\ devices' = read_devices_from_xml(file.doc)
              /\ hist' = h1
  /\ UNCHANGED <<worker, workers, clients, scpi_clients, tasks, timers,
                 logging_timer, csv>>

(* ---------------------------- initialization -------------------------- *)
\* AsyncWorker.__init__ plus the signals it has emitted so far.
AsyncWorker(devs) ==
  [devices |-> devs, scpi_clients |-> <<>>, progress |-> <<>>, events |-> <<>>,
   attempted |-> <<>>, done |-> 0]

\* start_initialize (lines 437-452).
start_initialize ==
  /\ ThreadFree
  /\ devices # <<>>
  /\ workers' = Append(workers, AsyncWorker(devices))
  /\ worker' = Len(workers) + 1
  /\ tasks' = Append(tasks, [Task("run") EXCEPT !.w = Len(workers) + 1])
  /\ UNCHANGED <<devices, clients, scpi_clients, timers, logging_timer, csv, hist>>

ProgressValueBeforeDevice(idx, total_devices) == (idx * 100) \div total_devices
\* The value of progress.emit at line 135, idx counted from 0 as by enumerate.
ProgressValue(idx, total_devices) == ((idx + 1) * 100) \div total_devices

\* initialize_channel (lines 138-150): its k-th send_command, if it has one.
InitializeChannelLen(channel) ==
  IF channel.type \in {"RES", "CURR", "VOLT"} THEN 3 ELSE 2
initialize_channel_mode_first(channel, k) ==
  IF k = 1 THEN Cmd("FUNC", channel.type, -1, -1)
  ELSE IF k = 2 THEN Cmd("CHAN", "", channel.number, -1)
  ELSE Cmd(channel.type, "", -1, channel.value)
initialize_channel(channel, k) ==
  IF k = 1 THEN Cmd("CHAN", "", channel.number, -1)
  ELSE IF k = 2 THEN Cmd("FUNC", channel.type, -1, -1)
  ELSE IF channel.type = "RES" THEN Cmd("RES", "", -1, channel.value)
  ELSE IF channel.type = "CURR" THEN Cmd("CURR", "", -1, channel.value)
  ELSE Cmd("VOLT", "", -1, channel.value)
initialize_voltage_channel_unindexed(channel) == Cmd("VOLT", "", -1, channel.value)
\* initialize_voltage_channel / initialize_current_channel (lines 152-162).
initialize_voltage_channel(channel) == Cmd("VOLT", "", channel.number, channel.value)
initialize_current_channel(channel) == Cmd("CURR", "", channel.number, channel.value)

\* Positions of the configuration loops of run (lines 121-128).
End == [list |-> "end", ch |-> 0, k |-> 0]
Pos(list, ch, k) == [list |-> list, ch |-> ch, k |-> k]
FirstPosNone(device) == End
FirstPos(device) ==
  IF device.kind = "Load"
  THEN IF device.channels # <<>> THEN Pos("channels", 1, 1) ELSE End
  ELSE IF device.voltage_channels # <<>> THEN Pos("voltage_channels", 1, 1)
  ELSE IF device.current_channels # <<>> THEN Pos("current_channels", 1, 1)
  ELSE End
NextPos(device, p) ==
  IF p.list = "channels"
  THEN IF p.k < InitializeChannelLen(device.channels[p.ch]) THEN Pos("channels", p.ch, p.k + 1)
       ELSE IF p.ch < Len(device.channels) THEN Pos("channels", p.ch + 1, 1)
       ELSE End
  ELSE IF p.list = "voltage_channels"
  THEN IF p.ch < Len(device.voltage_channels) THEN Pos("voltage_channels", p.ch + 1, 1)
       ELSE IF device.current_channels # <<>> THEN Pos("current_channels", 1, 1)
       ELSE End
  ELSE IF p.ch < Len(device.current_channels) THEN Pos("current_channels", p.ch + 1, 1)
       ELSE End
\* The number of the channel the loop is at.
NumberAt(device, p) ==
  IF p.list = "channels" THEN device.channels[p.ch].number
  ELSE IF p.list = "voltage_channels" THEN device.voltage_channels[p.ch].number
  ELSE device.current_channels[p.ch].number
CommandAt(device, p) ==
  IF p.list = "channels" THEN initialize_channel(device.channels[p.ch], p.k)
  ELSE IF p.list = "voltage_channels" THEN initialize_voltage_channel(device.voltage_channels[p.ch])
  ELSE initialize_current_channel(device.current_channels[p.ch])

\* The signals of lines 120, 131 and 133.  str(e) of a ConnectionError names
\* the address of the link (lines 25, 34, 41); the result texts name the id.
Event(sig, dev, text) == [sig |-> sig, dev |-> dev, text |-> text]
ResultConnected(device)    == Event("result", device.id, "connected")
ResultNotConnected(device) == Event("result", device.id, "not connected")
ErrorEvent(c) == Event("error", c.ip, "ConnectionError")

\* The end of one pass of run's loop (line 135), then either the next pass up
\* to its connect (lines 113-117) or done.emit and initialization_done
\* (lines 136, 463-465).  ws, cs: workers and clients as the pass leaves them.
AfterDevice(i, ws, cs) ==
  LET t   == tasks[i]
      dev == ws[t.w].devices
      ws1 == [ws EXCEPT ![t.w].progress = Append(@, ProgressValue(t.idx - 1, Len(dev)))]
  IN  IF t.idx < Len(dev)
      THEN /\ clients' = Append(cs, SCPIClient(dev[t.idx + 1].ip, dev[t.idx + 1].channels,
                                               t.w, t.idx + 1))
           /\ workers' = ws1
           /\ tasks' = [tasks EXCEPT ![i] = [t EXCEPT !.idx = t.idx + 1, !.pc = "connect",
                                                      !.client = Len(cs) + 1, !.io = "send"]]
           /\ UNCHANGED scpi_clients
      ELSE /\ clients' = cs
           /\ workers' = [ws1 EXCEPT ![t.w].done = @ + 1]
           /\ tasks' = RemoveAt(tasks, i)
           /\ scpi_clients' = worker

\* A ConnectionError raised inside the try of lines 116-133: the handler of
\* line 132 emits the error and the pass ends; uncaught, it ends run.
RunRaised(i, ws, cs) ==
  LET t == tasks[i]
  IN  IF Caught(run_except, "ConnectionError")
      THEN AfterDevice(i, [ws EXCEPT ![t.w].events = Append(@, ErrorEvent(cs[t.client]))], cs)
      ELSE /\ clients' = cs
           /\ workers' = ws
           /\ tasks' = RemoveAt(tasks, i)
           /\ UNCHANGED scpi_clients

\* run begins: the first pass of the loop up to its connect (lines 112-117).
RunBegin(i) ==
  /\ CanStep(i)
  /\ tasks[i].kind = "run" /\ tasks[i].pc = "new"
  /\ LET t == tasks[i]
         d == workers[t.w].devices[1]
     IN  /\ clients' = Append(clients, SCPIClient(d.ip, d.channels, t.w, 1))
         /\ tasks' = [tasks EXCEPT ![i] = [t EXCEPT !.idx = 1, !.pc = "connect",
                                                    !.client = Len(clients) + 1]]
  /\ UNCHANGED <<devices, worker, workers, scpi_clients, timers, logging_timer, csv, hist>>

\* await client.connect() (line 117).
RunConnect(i) ==
  /\ CanStep(i)
  /\ tasks[i].kind = "run" /\ tasks[i].pc = "connect"
  /\ LET t  == tasks[i]
         c  == clients[t.client]
         ws == [workers EXCEPT ![t.w].attempted = Append(@, t.idx)]
     IN  \E ok \in BOOLEAN :
           IF ok
           THEN /\ clients' = [clients EXCEPT ![t.client] = connect(c, ok)]
                /\ workers' = ws
                /\ tasks' = [tasks EXCEPT ![i].pc = "idn"]
                /\ UNCHANGED <<scpi_clients, hist>>
           ELSE /\ RunRaised(i, ws, [clients EXCEPT ![t.client] =
                                       Ended(connect(c, ok), "connect failed")])
                /\ hist' = [hist EXCEPT !.faults = @ + 1]
  /\ UNCHANGED <<devices, worker, timers, logging_timer, csv>>

\* response = await client.send_command('*IDN?') and the branch on it
\* (lines 118-121, 129-131).
RunIdn(i) ==
  /\ CanStep(i)
  /\ tasks[i].kind = "run" /\ tasks[i].pc = "idn"
  /\ LET t   == tasks[i]
         c   == clients[t.client]
         d   == workers[t.w].devices[t.idx]
         cmd == Cmd("*IDN?", "", -1, -1)
     IN  \E out \in IoOutcomes(c, t.io) :
           LET c1 == [AfterIo(c, cmd, -1, out, t.io) EXCEPT !.idn = out]
           IN  /\ hist' = [hist EXCEPT !.faults = @ + (IF out # "resp" THEN 1 ELSE 0)]
               /\ IF Raises(out)
                  THEN RunRaised(i, workers, [clients EXCEPT ![t.client] =
                                                Ended(c1, "identification failed")])
                  ELSE IF Response(cmd, out) # ""
                  THEN LET ws == [workers EXCEPT ![t.w].events = Append(@, ResultConnected(d))]
                       IN  IF FirstPos(d) = End
                           THEN AfterDevice(i, [ws EXCEPT ![t.w].scpi_clients = Append(@, t.client)],
                                            [clients EXCEPT ![t.client] = Ended(c1, "configured")])
                           ELSE /\ clients' = [clients EXCEPT ![t.client] = c1]
                                /\ workers' = ws
                                /\ tasks' = [tasks EXCEPT ![i] =
                                               [t EXCEPT !.pc = "cfg", !.list = FirstPos(d).list,
                                                         !.ch = FirstPos(d).ch, !.k = FirstPos(d).k,
                                                         !.io = "send"]]
                                /\ UNCHANGED scpi_clients
                  ELSE AfterDevice(i, [workers EXCEPT ![t.w].events =
                                          Append(@, ResultNotConnected(d))],
                                   [clients EXCEPT ![t.client] = Ended(c1, "identification empty")])
  /\ UNCHANGED <<devices, worker, timers, logging_timer, csv>>

\* One send_command of the configuration loops (lines 121-129, 138-162).
RunConfigure(i) ==
  /\ CanStep(i)
  /\ tasks[i].kind = "run" /\ tasks[i].pc = "cfg"
  /\ LET t   == tasks[i]
         c   == clients[t.client]
         d   == workers[t.w].devices[t.idx]
         p   == Pos(t.list, t.ch, t.k)
         cmd == CommandAt(d, p)
         q   == NextPos(d, p)
     IN  \E out \in IoOutcomes(c, t.io) :
           LET c1 == AfterIo(c, cmd, NumberAt(d, p), out, t.io)
           IN  /\ hist' = [hist EXCEPT !.faults = @ + (IF Raises(out) THEN 1 ELSE 0)]
               /\ IF Raises(out)
                  THEN RunRaised(i, workers, [clients EXCEPT ![t.client] =
                                                Ended(c1, "configuration failed")])
                  ELSE IF q = End
                  THEN AfterDevice(i, [workers EXCEPT ![t.w].scpi_clients = Append(@, t.client)],
                                   [clients EXCEPT ![t.client] = Ended(c1, "configured")])
                  ELSE /\ clients' = [clients EXCEPT ![t.client] = c1]
                       /\ tasks' = [tasks EXCEPT ![i] =
                                      [t EXCEPT !.list = q.list, !.ch = q.ch, !.k = q.k, !.io = "send"]]
                       /\ UNCHANGED <<workers, scpi_clients>>
  /\ UNCHANGED <<devices, worker, timers, logging_timer, csv>>

RunStep(i) == RunBegin(i) \/ RunConnect(i) \/ RunIdn(i) \/ RunConfigure(i)

(* ------------------------------ telemetry ----------------------------- *)
\* Cells of a row of log_data.csv: a field name of the header, or a value
\* with the expression of line 558 it is the value of.
NameCell(name)  == [kind |-> "name", text |-> name, n |-> -1]
IpCell(ip)      == [kind |-> "ip", text |-> "", n |-> ip]
NumberCell(n)   == [kind |-> "number", text |-> "", n |-> n]
ValueCell(var, r) == [kind |-> var, text |-> r, n |-> -1]

\* fieldnames (line 538).
fieldnames ==
  <<NameCell("Time"), NameCell("IP"), NameCell("Channel"), NameCell("Current"),
    NameCell("Voltage"), NameCell("Resistance")>>

\* The list of line 558 given to writer.writerow.
DataRow(client, channel, current, voltage, resistance) ==
  <<IpCell(client.ip), NumberCell(channel.number), ValueCell("current", current),
    ValueCell("voltage", voltage), ValueCell("resistance", resistance)>>

\* What the properties remember of one poll cycle: the list it iterates, the
\* lines it has written, the rows it has appended, the clients it has called
\* send_command on, those that raised, and whether log_data has ended.
Cycle ==
  [w |-> -1, cmds |-> <<>>, rows |-> 0, tried |-> {}, raised |-> {}, done |-> FALSE]

writeheader_none(names) == <<>>
\* The file after open(self.csv_file, 'w') and writer.writeheader()
\* (lines 537-540).
writeheader(names) == <<names>>

\* start_logging (lines 527-528).
start_logging ==
  /\ ThreadFree
  /\ tasks' = Append(tasks, Task("start"))
  /\ hist' = [hist EXCEPT !.stopped = FALSE]
  /\ UNCHANGED <<devices, worker, workers, clients, scpi_clients, timers, logging_timer, csv>>

\* async_start_logging (lines 530-540): int() of the interval field raises
\* ValueError when the field does not hold a number, which ends the task;
\* otherwise a new timer is started, then the file is opened with mode 'w'
\* and the header written.
async_start_logging(i) ==
  /\ CanStep(i)
  /\ tasks[i].kind = "start"
  /\ \E valid \in BOOLEAN :
       IF valid
       THEN /\ timers' = Append(timers, TRUE)
            /\ logging_timer' = Len(timers) + 1
            /\ csv' = writeheader(fieldnames)
            /\ hist' = [hist EXCEPT !.rowcyc = [r \in DOMAIN writeheader(fieldnames) |-> 0],
                                    !.rowsel = [r \in DOMAIN writeheader(fieldnames) |-> -1]]
       ELSE UNCHANGED <<timers, logging_timer, csv, hist>>
  /\ tasks' = RemoveAt(tasks, i)
  /\ UNCHANGED <<devices, worker, workers, clients, scpi_clients>>

\* stop_logging (lines 542-545).
stop_logging ==
  /\ ThreadFree
  /\ timers' = IF logging_timer # 0 THEN [timers EXCEPT ![logging_timer] = FALSE] ELSE timers
  /\ hist' = [hist EXCEPT !.stopped = TRUE]
  /\ UNCHANGED <<devices, worker, workers, clients, scpi_clients, tasks, logging_timer, csv>>

\* The timeout of an active timer: the lambda of line 534.
Tick(tm) ==
  /\ ThreadFree
  /\ tm \in DOMAIN timers /\ timers[tm]
  /\ tasks' = Append(tasks, [Task("log") EXCEPT !.cyc = Len(hist.cycles) + 1])
  /\ hist' = [hist EXCEPT !.cycles = Append(@, Cycle)]
  /\ UNCHANGED <<devices, worker, workers, clients, scpi_clients, timers, logging_timer, csv>>

\* The channel that the last channel-select among the first n lines written
\* on link c names (-1: none).
Selected(c, n) ==
  LET sel == { k \in 1..n : c.sent[k].op = "CHAN" }
  IN  IF sel = {} THEN -1 ELSE c.sent[CHOOSE k \in sel : \A m \in sel : m <= k].number

\* The list object that MainWindow.scpi_clients / a log_data loop refers to.
ListOf(ws, w) == IF w = 0 THEN <<>> ELSE ws[w].scpi_clients

PollCommandVoltageFirst(channel, k) ==
  IF k = 1 THEN Cmd("CHAN", "", channel.number, -1)
  ELSE IF k = 2 THEN Cmd("MEASure:VOLTage?", "", -1, -1)
  ELSE IF k = 3 THEN Cmd("MEASure:CURRent?", "", -1, -1)
  ELSE Cmd("MEASure:RESistance?", "", -1, -1)
PollCommandSelectLast(channel, k) ==
  IF k = 1 THEN Cmd("MEASure:CURRent?", "", -1, -1)
  ELSE IF k = 2 THEN Cmd("MEASure:VOLTage?", "", -1, -1)
  ELSE IF k = 3 THEN Cmd("MEASure:RESistance?", "", -1, -1)
  ELSE Cmd("CHAN", "", channel.number, -1)
\* The send_command calls of one pass of the channel loop (lines 553-556).
PollCommand(channel, k) ==
  IF k = 1 THEN Cmd("CHAN", "", channel.number, -1)
  ELSE IF k = 2 THEN Cmd("MEASure:CURRent?", "", -1, -1)
  ELSE IF k = 3 THEN Cmd("MEASure:VOLTage?", "", -1, -1)
  ELSE Cmd("MEASure:RESistance?", "", -1, -1)

\* The next client of the list, after position ci, whose channel loop has a
\* pass to make (0: the client loop of line 550 is over).
NextClient(lst, ci) ==
  LET later == { j \in (ci + 1)..Len(lst) : clients[lst[j]].channels # <<>> }
  IN  IF later = {} THEN 0 ELSE CHOOSE j \in later : \A m \in later : j <= m

\* The client loop moves on from position t.ci (lines 550, 561-562): to the
\* next client, or out of the with block.  h: hist as the pass leaves it.
LogAfterClient(i, h) ==
  LET t == tasks[i]
      j == NextClient(ListOf(workers, t.w), t.ci)
  IN  IF j = 0
      THEN /\ tasks' = RemoveAt(tasks, i)
           /\ hist' = [h EXCEPT !.cycles[t.cyc].done = TRUE]
      ELSE /\ tasks' = [tasks EXCEPT ![i] = [t EXCEPT !.pc = "poll", !.ci = j, !.ch = 1, !.k = 1,
                                                      !.io = "send"]]
           /\ hist' = h

\* log_data begins (lines 547-550): the file is opened for appending and the
\* loop takes the list MainWindow.scpi_clients refers to now.
LogBegin(i) ==
  /\ CanStep(i)
  /\ tasks[i].kind = "log" /\ tasks[i].pc = "new"
  /\ LET t == tasks[i]
         j == NextClient(ListOf(workers, scpi_clients), 0)
         h == [hist EXCEPT !.cycles[t.cyc].w = scpi_clients]
     IN  IF j = 0
         THEN /\ tasks' = RemoveAt(tasks, i)
              /\ hist' = [h EXCEPT !.cycles[t.cyc].done = TRUE]
         ELSE /\ tasks' = [tasks EXCEPT ![i] =
                             [t EXCEPT !.pc = "poll", !.w = scpi_clients, !.ci = j, !.ch = 1, !.k = 1]]
              /\ hist' = h
  /\ UNCHANGED <<devices, worker, workers, clients, scpi_clients, timers, logging_timer, csv>>

\* One send_command of log_data and the code up to the next one (lines 551-562).
LogPoll(i) ==
  /\ CanStep(i)
  /\ tasks[i].kind = "log" /\ tasks[i].pc = "poll"
  /\ LET t       == tasks[i]
         cid     == ListOf(workers, t.w)[t.ci]
         c       == clients[cid]
         channel == c.channels[t.ch]
         cmd     == PollCommand(channel, t.k)
     IN  \E out \in IoOutcomes(c, t.io) :
           LET c1 == AfterIo(c, cmd, channel.number, out, t.io)
               r  == Response(cmd, out)
               h  == [hist EXCEPT
                        !.faults = @ + (IF Raises(out) \/ (t.k > 1 /\ r = "") THEN 1 ELSE 0),
                        !.cycles[t.cyc].tried = @ \cup {cid},
                        !.cycles[t.cyc].raised = IF Raises(out) THEN @ \cup {cid} ELSE @]
           IN  /\ clients' = [clients EXCEPT ![cid] = c1]
               /\ IF Raises(out)
                  THEN /\ IF Caught(log_except, "ConnectionError")
                          THEN LogAfterClient(i, h)
                          ELSE /\ tasks' = RemoveAt(tasks, i)
                               /\ hist' = [h EXCEPT !.cycles[t.cyc].done = TRUE]
                       /\ csv' = csv
                  ELSE IF t.k < 4
                  THEN /\ tasks' = [tasks EXCEPT ![i] =
                                      [t EXCEPT !.k = t.k + 1, !.io = "send",
                                                !.current = IF t.k = 2 THEN r ELSE @,
                                                !.voltage = IF t.k = 3 THEN r ELSE @]]
                       /\ hist' = h
                       /\ csv' = csv
                  ELSE LET h2 == [h EXCEPT !.rowcyc = Append(@, t.cyc),
                                           !.rowsel = Append(@, Selected(c1, Len(c1.sent))),
                                           !.cycles[t.cyc].rows = @ + 1]
                       IN  /\ csv' = Append(csv, DataRow(c, channel, t.current, t.voltage, r))
                           /\ IF t.ch < Len(c.channels)
                              THEN /\ tasks' = [tasks EXCEPT ![i] =
                                                  [t EXCEPT !.ch = t.ch + 1, !.k = 1, !.io = "send"]]
                                   /\ hist' = h2
                              ELSE LogAfterClient(i, h2)
  /\ UNCHANGED <<devices, worker, workers, scpi_clients, timers, logging_timer>>

(* ---------------------------- manual command -------------------------- *)
\* connect_and_send_manual_command (lines 573-574).
connect_and_send_manual_command ==
  /\ ThreadFree
  /\ tasks' = Append(tasks, Task("manual"))
  /\ hist' = [hist EXCEPT !.manuals = @ + 1]
  /\ UNCHANGED <<devices, worker, workers, clients, scpi_clients, timers, logging_timer, csv>>

\* async_connect_and_send_manual_command begins (lines 577-585); filled: the
\* address, port and command fields all hold something.
ManualBegin(i) ==
  /\ CanStep(i)
  /\ tasks[i].kind = "manual" /\ tasks[i].pc = "new"
  /\ \E filled \in BOOLEAN, ip \in {1} :
       IF filled
       THEN /\ clients' = Append(clients, SCPIClient(ip, <<>>, 0, 0))
            /\ tasks' = [tasks EXCEPT ![i] = [@ EXCEPT !.pc = "connect", !.client = Len(clients) + 1]]
       ELSE /\ tasks' = RemoveAt(tasks, i)
            /\ UNCHANGED clients
  /\ UNCHANGED <<devices, worker, workers, scpi_clients, timers, logging_timer, csv, hist>>

\* await client.connect() (line 586); a ConnectionError ends the task.
ManualConnect(i) ==
  /\ CanStep(i)
  /\ tasks[i].kind = "manual" /\ tasks[i].pc = "connect"
  /\ \E ok \in BOOLEAN :
       /\ clients' = [clients EXCEPT ![tasks[i].client] = connect(@, ok)]
       /\ tasks' = IF ok THEN [tasks EXCEPT ![i].pc = "send"] ELSE RemoveAt(tasks, i)
       /\ hist' = [hist EXCEPT !.faults = @ + (IF ok THEN 0 ELSE 1)]
  /\ UNCHANGED <<devices, worker, workers, scpi_clients, timers, logging_timer, csv>>

\* response = await client.send_command(command), the report and client.close()
\* (lines 587-594); a ConnectionError ends the task at line 587.
ManualSend(i) ==
  /\ CanStep(i)
  /\ tasks[i].kind = "manual" /\ tasks[i].pc = "send"
  /\ LET cid == tasks[i].client
         c   == clients[cid]
         cmd == Cmd("*IDN?", "", -1, -1)
     IN  \E out \in IoOutcomes(c, tasks[i].io) :
           /\ clients' = [clients EXCEPT ![cid] =
                            IF Raises(out) THEN AfterIo(c, cmd, -1, out, tasks[i].io)
                            ELSE close(AfterIo(c, cmd, -1, out, tasks[i].io))]
           /\ hist' = [hist EXCEPT !.faults = @ + (IF out # "resp" THEN 1 ELSE 0)]
  /\ tasks' = RemoveAt(tasks, i)
  /\ UNCHANGED <<devices, worker, workers, scpi_clients, timers, logging_timer, csv>>

(* ------------------------------ closeEvent ---------------------------- *)
\* closeEvent (lines 596-599): the clients of MainWindow.scpi_clients are
\* closed; the window closes and with it the event loop ends.
closeEvent ==
  /\ ThreadFree
  /\ LET lst == ListOf(workers, scpi_clients)
     IN  clients' = [cid \in DOMAIN clients |->
                       IF \E j \in DOMAIN lst : lst[j] = cid THEN close(clients[cid])
                       ELSE clients[cid]]
  /\ hist' = [hist EXCEPT !.up = "closed"]
  /\ UNCHANGED <<devices, worker, workers, scpi_clients, tasks, timers, logging_timer, csv>>

(* --------------------- the write of a send_command -------------------- *)
\* The link and the command of the send_command call that task t is in.
LinkOf(t) == IF t.kind = "log" THEN ListOf(workers, t.w)[t.ci] ELSE t.client
CallOf(t) ==
  IF t.kind = "log"
  THEN LET channel == clients[LinkOf(t)].channels[t.ch]
       IN  [cmd |-> PollCommand(channel, t.k), n |-> channel.number]
  ELSE IF t.pc = "cfg"
  THEN LET d == workers[t.w].devices[t.idx]
       IN  [cmd |-> CommandAt(d, Pos(t.list, t.ch, t.k)), n |-> NumberAt(d, Pos(t.list, t.ch, t.k))]
  ELSE [cmd |-> Cmd("*IDN?", "", -1, -1), n |-> -1]

\* send_command up to the return of sendall (lines 28-31): the implicit
\* connect, if the link has no socket, and the write.
Sendall(i) ==
  /\ CanStep(i)
  /\ tasks[i].pc \in {"idn", "cfg", "poll", "send"} /\ tasks[i].io = "send"
  /\ LET t   == tasks[i]
         cid == LinkOf(t)
         c   == clients[cid]
     IN  /\ c.sock # "failed"
         /\ clients' = [clients EXCEPT ![cid] =
                          sendall(IF c.sock = "None" THEN connect(c, TRUE) ELSE c,
                                  CallOf(t).cmd, CallOf(t).n)]
         /\ tasks' = [tasks EXCEPT ![i].io = "recv"]
         /\ hist' = IF t.kind = "log"
                    THEN [hist EXCEPT !.cycles[t.cyc].tried = @ \cup {cid},
                                      !.cycles[t.cyc].cmds = Append(@, <<cid, CallOf(t).cmd>>)]
                    ELSE hist
  /\ UNCHANGED <<devices, worker, workers, scpi_clients, timers, logging_timer, csv>>

(* ---------------------------- the whole program ----------------------- *)
TaskStep(i) ==
  \/ RunStep(i)
  \/ Sendall(i)
  \/ async_start_logging(i)
  \/ LogBegin(i) \/ LogPoll(i)
  \/ ManualBegin(i) \/ ManualConnect(i) \/ ManualSend(i)

Next ==
  \/ \E file \in Files(MaxDocument) : hist.loads < MaxLoads /\ load_xml(file)
  \/ Len(workers) < MaxRuns /\ start_initialize
  \/ Len(timers) + Cardinality({i \in DOMAIN tasks : tasks[i].kind = "start"}) < MaxTimers
       /\ start_logging
  \/ stop_logging
  \/ \E tm \in DOMAIN timers : Len(hist.cycles) < MaxCycles /\ Tick(tm)
  \/ hist.manuals < MaxManual /\ connect_and_send_manual_command
  \/ closeEvent
  \/ \E i \in DOMAIN tasks : TaskStep(i) /\ hist'.faults <= MaxFaults

Spec == Init /\ [][Next]_vars

(* ------------------------- the SCPIClient alone ----------------------- *)
\* The methods of SCPIClient called directly, in any order, on clients that
\* no task uses.  hist.call: the last send_command call, the state of the
\* link before it, the socket operations it made and what it raised.
NewClient ==
  /\ clients' = Append(clients, SCPIClient(Len(clients) + 1, <<>>, 0, 0))
  /\ UNCHANGED <<devices, worker, workers, scpi_clients, tasks, timers, logging_timer, csv, hist>>

ClientConnect(cid, ok) ==
  /\ clients' = [clients EXCEPT ![cid] = connect(@, ok)]
  /\ UNCHANGED <<devices, worker, workers, scpi_clients, tasks, timers, logging_timer, csv, hist>>

ClientSendCommand(cid, cmd, out) ==
  /\ out \in Outcomes(clients[cid])
  /\ clients' = [clients EXCEPT ![cid] = send_command(@, cmd, -1, out)]
  /\ hist' = [hist EXCEPT !.call = [cid |-> cid, sock |-> clients[cid].sock,
                                    ops |-> SocketOps(clients[cid], out),
                                    raised |-> IF Raises(out) THEN "ConnectionError" ELSE ""]]
  /\ UNCHANGED <<devices, worker, workers, scpi_clients, tasks, timers, logging_timer, csv>>

ClientClose(cid) ==
  /\ clients' = [clients EXCEPT ![cid] = close(@)]
  /\ UNCHANGED <<devices, worker, workers, scpi_clients, tasks, timers, logging_timer, csv, hist>>

ClientNext ==
  \/ Len(clients) < MaxClients /\ NewClient
  \/ \E cid \in DOMAIN clients, ok \in BOOLEAN : ClientConnect(cid, ok)
  \/ \E cid \in DOMAIN clients, out \in {"resp", "empty", "connfail", "sendfault", "recvfault"},
         cmd \in {Cmd("*IDN?", "", -1, -1), Cmd("CHAN", "", 1, -1)} :
       Len(clients[cid].sent) < MaxSent /\ ClientSendCommand(cid, cmd, out)
  \/ \E cid \in DOMAIN clients : ClientClose(cid)

ClientSpec == Init /\ [][ClientNext]_vars

(* ------------- initialization started again, with the logger --------- *)
ReinitNext ==
  \/ \E doc \in Documents(MaxDocument) : hist.loads = 0 /\ load_xml(Parsed(doc))
  \/ Len(workers) < MaxReruns /\ start_initialize
  \/ timers = <<>> /\ (\A i \in DOMAIN tasks : tasks[i].kind # "start") /\ start_logging
  \/ \E tm \in DOMAIN timers : Len(hist.cycles) < MaxCycles /\ Tick(tm)
  \/ closeEvent
  \/ \E i \in DOMAIN tasks :
       (RunStep(i) \/ Sendall(i) \/ async_start_logging(i) \/ LogBegin(i) \/ LogPoll(i))
         /\ hist'.faults <= MaxFaults

ReinitSpec == Init /\ [][ReinitNext]_vars

(* ------------- the telemetry logger after one initialization ---------- *)
LogNext ==
  \/ \E doc \in Documents(MaxLogDocument) : hist.loads = 0 /\ load_xml(Parsed(doc))
  \/ workers = <<>> /\ start_initialize
  \/ timers = <<>> /\ tasks = <<>> /\ start_logging
  \/ \E tm \in DOMAIN timers : Len(hist.cycles) < MaxCycles /\ Tick(tm)
  \/ \E i \in DOMAIN tasks :
       (RunStep(i) \/ Sendall(i) \/ async_start_logging(i) \/ LogBegin(i) \/ LogPoll(i))
         /\ hist'.faults <= MaxFaults

LogSpec == Init /\ [][LogNext]_vars

(* ---------------- the initialization orchestrator alone --------------- *)
InitNext ==
  \/ \E doc \in Documents(MaxDevices) : hist.loads = 0 /\ load_xml(Parsed(doc))
  \/ workers = <<>> /\ start_initialize
  \/ \E i \in DOMAIN tasks : RunStep(i) \/ Sendall(i)

InitSpec == Init /\ [][InitNext]_vars

\* The event loop runs every queued task, and every socket call of a running
\* task returns or times out (settimeout(5)).
FairInitSpec == InitSpec /\ WF_vars(\E i \in DOMAIN tasks : RunStep(i) \/ Sendall(i))
(* ------------------------------ properties ---------------------------- *)
LogTasks == { i \in DOMAIN tasks : tasks[i].kind = "log" }
\* The poll cycles that have begun executing and have not ended.
RunningCycles == { i \in LogTasks : Started(tasks[i]) }
\* The data rows of the log.
DataRows(rows) == { r \in DOMAIN rows : rows[r][1].kind = "ip" }

\* C1: poll cycles never overlap: at most one log_data has begun and not yet
\* ended, so a tick delivered while a cycle runs waits in the queue, and the
\* rows that one cycle writes are adjacent in the log.
C1_CyclesNeverOverlap ==
  /\ Cardinality(RunningCycles) <= 1
  /\ \A a, b, c \in DOMAIN hist.rowcyc :
       (a < b /\ b < c /\ hist.rowcyc[a] = hist.rowcyc[c]) => hist.rowcyc[b] = hist.rowcyc[a]

\* A cycle that has written a row is still running while a second tick's
\* cycle waits, not begun.
C1_Witness ==
  \E i, j \in LogTasks :
    /\ Started(tasks[i]) /\ hist.cycles[tasks[i].cyc].rows >= 1
    /\ ~Started(tasks[j])

\* C2: once stop_logging has returned (and start_logging has not been called
\* again), no step appends a record to the log.
C2_NoRecordAfterStop ==
  [][hist.stopped => Cardinality(DataRows(csv')) <= Cardinality(DataRows(csv))]_vars

\* The clients made by initialization runs, and the device each was made for.
RunClients == { cid \in DOMAIN clients : clients[cid].w # 0 }
DeviceOf(c) == workers[c.w].devices[c.idx]
EventsOf(c, sig) ==
  { k \in DOMAIN workers[c.w].events : workers[c.w].events[k].sig = sig
                                        /\ workers[c.w].events[k].dev = c.ip }
IsPrefix(s, t) == Len(s) <= Len(t) /\ \A k \in DOMAIN s : s[k] = t[k]

\* C3: a run attempts the devices in list order whatever fails, emits done at
\* most once and only after the last device, and every run that was started
\* reaches Done.
C3_RunOrdered ==
  \A w \in DOMAIN workers :
    /\ workers[w].done <= 1
    /\ \A k \in DOMAIN workers[w].attempted : workers[w].attempted[k] = k
    /\ workers[w].done = 1 => Len(workers[w].attempted) = Len(workers[w].devices)
C3_RunReachesDone ==
  /\ []C3_RunOrdered
  /\ \A w \in 1..MaxRuns :
       [](w \in DOMAIN workers => <>(w \in DOMAIN workers /\ workers[w].done = 1))

\* A finished run over three devices that failed in the three ways.
C3_Witness ==
  \E w \in DOMAIN workers :
    /\ workers[w].done = 1 /\ Len(workers[w].devices) = 3
    /\ \E a, b, c \in RunClients :
         /\ clients[a].w = w /\ clients[b].w = w /\ clients[c].w = w
         /\ clients[a].ended = "connect failed"
         /\ clients[b].ended = "identification empty"
         /\ clients[c].ended = "configuration failed"

\* C4 as claimed: a device whose connect or identification failed, or whose
\* identification response was empty, has exactly one error event naming it;
\* a device configured successfully has none.
C4_OneErrorPerUnreachable ==
  \A cid \in RunClients :
    LET c == clients[cid]
    IN  /\ c.ended \in {"connect failed", "identification failed", "identification empty"}
             => Cardinality(EventsOf(c, "error")) = 1
        /\ c.ended = "configured" => EventsOf(c, "error") = {}

\* What run emits instead: exactly one error event names a device whose
\* connect, identification or configuration raised; a device whose
\* identification response was empty has no error event and exactly one
\* "not connected" result event; a configured device has no error event.
EventsAsEmitted ==
  \A cid \in RunClients :
    LET c == clients[cid]
        notconnected == { k \in EventsOf(c, "result") :
                            workers[c.w].events[k].text = "not connected" }
    IN  /\ c.ended \in {"connect failed", "identification failed", "configuration failed"}
             => Cardinality(EventsOf(c, "error")) = 1 /\ notconnected = {}
        /\ c.ended = "identification empty"
             => EventsOf(c, "error") = {} /\ Cardinality(notconnected) = 1
        /\ c.ended \in {"configured", ""} => EventsOf(c, "error") = {} /\ notconnected = {}

\* C5: the progress values of a run never decrease and stay within 0..100;
\* a finished run over N devices has emitted N of them, the last being 100.
C5_Progress ==
  \A w \in DOMAIN workers :
    LET p == workers[w].progress
    IN  /\ \A k \in DOMAIN p : 0 <= p[k] /\ p[k] <= 100
        /\ \A k \in 1..(Len(p) - 1) : p[k] <= p[k + 1]
        /\ workers[w].done = 1 => Len(p) = Len(workers[w].devices) /\ p[Len(p)] = 100

\* A finished run over three devices, none of which was configured.
C5_Witness ==
  \E w \in DOMAIN workers :
    /\ workers[w].done = 1 /\ workers[w].scpi_clients = <<>>
    /\ workers[w].progress = <<33, 66, 100>>

\* C6: the lines written on the link of a Load device during initialization
\* are, in order, the identification query and then per channel the
\* channel-select, the mode-select and the setpoint command of its mode:
\* always a prefix of that sequence, and the whole of it once configured.
ExpectedLoadCommands(channels) ==
  [j \in 1..(1 + 3 * Len(channels)) |->
     IF j = 1 THEN Cmd("*IDN?", "", -1, -1)
     ELSE LET ch == channels[((j - 2) \div 3) + 1]
              k  == (j - 2) % 3
          IN  IF k = 0 THEN Cmd("CHAN", "", ch.number, -1)
              ELSE IF k = 1 THEN Cmd("FUNC", ch.type, -1, -1)
              ELSE Cmd(ch.type, "", -1, ch.value)]
C6_LoadCommandSequence ==
  \A cid \in RunClients :
    LET c == clients[cid]
    IN  DeviceOf(c).kind = "Load" =>
          /\ IsPrefix(c.sent, ExpectedLoadCommands(DeviceOf(c).channels))
          /\ c.ended = "configured" => c.sent = ExpectedLoadCommands(DeviceOf(c).channels)

\* The Load device with channels (1, VOLT, 5) and (2, CURR, 1), configured.
C6_Witness ==
  \E cid \in RunClients :
    /\ clients[cid].ended = "configured"
    /\ clients[cid].sent =
         <<Cmd("*IDN?", "", -1, -1),
           Cmd("CHAN", "", 1, -1), Cmd("FUNC", "VOLT", -1, -1), Cmd("VOLT", "", -1, 5),
           Cmd("CHAN", "", 2, -1), Cmd("FUNC", "CURR", -1, -1), Cmd("CURR", "", -1, 1)>>

\* The (client, channel) pairs a poll cycle over list lst has to visit, in
\* set order and, within a client, in list order.
RECURSIVE ChannelKeys(_, _)
ChannelKeys(lst, j) ==
  IF j > Len(lst) THEN <<>>
  ELSE [k \in 1..Len(clients[lst[j]].channels) |-> <<lst[j], k>>] \o ChannelKeys(lst, j + 1)
\* The lines such a cycle has to write: per pair the channel-select and the
\* current, voltage and resistance queries.
ExpectedCycleCommands(keys) ==
  [j \in 1..(4 * Len(keys)) |->
     LET key == keys[((j - 1) \div 4) + 1]
         k   == (j - 1) % 4
     IN  <<key[1],
           IF k = 0 THEN Cmd("CHAN", "", clients[key[1]].channels[key[2]].number, -1)
           ELSE IF k = 1 THEN Cmd("MEASure:CURRent?", "", -1, -1)
           ELSE IF k = 2 THEN Cmd("MEASure:VOLTage?", "", -1, -1)
           ELSE Cmd("MEASure:RESistance?", "", -1, -1)>>]
OnClient(cid, seq) == SelectSeq(seq, LAMBDA e : e[1] = cid)
\* The rows of the log written by cycle y, in log order.
RowsOfCycle(y) ==
  LET at == { r \in DataRows(csv) : hist.rowcyc[r] = y }
      nth(n) == CHOOSE r \in at : Cardinality({ q \in at : q < r }) = n - 1
  IN  [n \in 1..Cardinality(at) |-> csv[nth(n)]]
CyclesBegun == { y \in DOMAIN hist.cycles : hist.cycles[y].w >= 0 }

\* C7: on every link a poll cycle writes a prefix of that link's lines
\* (channel-select, then the current, voltage and resistance queries, channel
\* by channel) and visits the links in set order; a cycle that ends without a
\* fault has written all of them and appended one record per channel, in that
\* order, holding the answers to the three queries in the order current,
\* voltage, resistance.
C7_PollCycle ==
  \A y \in CyclesBegun :
    LET cyc  == hist.cycles[y]
        lst  == ListOf(workers, cyc.w)
        keys == ChannelKeys(lst, 1)
        exp  == ExpectedCycleCommands(keys)
        rows == RowsOfCycle(y)
    IN  /\ \A j \in DOMAIN lst : IsPrefix(OnClient(lst[j], cyc.cmds), OnClient(lst[j], exp))
        /\ \A a, b \in DOMAIN cyc.cmds :
             a < b => \E j, m \in DOMAIN lst :
                        j <= m /\ lst[j] = cyc.cmds[a][1] /\ lst[m] = cyc.cmds[b][1]
        /\ Len(rows) = cyc.rows
        /\ (cyc.done /\ cyc.raised = {}) =>
             /\ cyc.cmds = exp
             /\ Len(rows) = Len(keys)
             /\ \A n \in DOMAIN rows :
                  /\ rows[n][1] = IpCell(clients[keys[n][1]].ip)
                  /\ rows[n][2] = NumberCell(clients[keys[n][1]].channels[keys[n][2]].number)
                  /\ rows[n][3].kind = "current" /\ rows[n][3].text \in {"MEASure:CURRent?", ""}
                  /\ rows[n][4].kind = "voltage" /\ rows[n][4].text \in {"MEASure:VOLTage?", ""}
                  /\ rows[n][5].kind = "resistance"
                  /\ rows[n][5].text \in {"MEASure:RESistance?", ""}

\* A fault-free cycle over one active client with two channels: the log holds
\* the header and the two records.
C7_Witness ==
  \E y \in CyclesBegun :
    LET cyc == hist.cycles[y]
        lst == ListOf(workers, cyc.w)
    IN  /\ cyc.done /\ cyc.raised = {} /\ cyc.rows = 2
        /\ Len(lst) = 1 /\ Len(clients[lst[1]].channels) = 2
        /\ Len(csv) = 3 /\ csv[1] = fieldnames
        /\ csv[2][3].text = "MEASure:CURRent?" /\ csv[2][4].text = "MEASure:VOLTage?"
        /\ csv[2][5].text = "MEASure:RESistance?"

\* The header field that a cell of a data row is a value of.
FieldOf(cell) ==
  IF cell.kind = "time" THEN "Time"
  ELSE IF cell.kind = "ip" THEN "IP"
  ELSE IF cell.kind = "number" THEN "Channel"
  ELSE IF cell.kind = "current" THEN "Current"
  ELSE IF cell.kind = "voltage" THEN "Voltage"
  ELSE IF cell.kind = "resistance" THEN "Resistance"
  ELSE ""

\* C8: every data row of the log has the six fields of the header, in header
\* order: time, address, channel, current, voltage, resistance.
C8_RowsCarryHeaderFields ==
  \A r \in DataRows(csv) :
    /\ Len(csv[r]) = Len(fieldnames)
    /\ \A k \in DOMAIN fieldnames : FieldOf(csv[r][k]) = fieldnames[k].text

\* C9: a cycle that has ended has called every client of the active set that
\* has channels, whichever clients raised, in this cycle or an earlier one;
\* and every client that did not raise has one record per channel, so a fault
\* costs only the raising client's remaining channels.
C9_FaultSkipsOnlyThatClient ==
  \A y \in CyclesBegun :
    LET cyc == hist.cycles[y]
        lst == ListOf(workers, cyc.w)
    IN  cyc.done =>
          \A j \in DOMAIN lst :
            LET c == clients[lst[j]]
            IN  /\ c.channels # <<>> => lst[j] \in cyc.tried
                /\ lst[j] \notin cyc.raised =>
                     Len(SelectSeq(RowsOfCycle(y), LAMBDA row : row[1] = IpCell(c.ip)))
                       = Len(c.channels)

\* The first client of the set raised in cycle 1, the client after it was
\* still polled and recorded in cycle 1, and cycle 2 called the first again.
C9_Witness ==
  /\ Len(hist.cycles) >= 2 /\ hist.cycles[1].done /\ hist.cycles[2].done
  /\ LET lst == ListOf(workers, hist.cycles[1].w)
     IN  /\ Len(lst) >= 2
         /\ lst[1] \in hist.cycles[1].raised
         /\ \E r \in DataRows(csv) : hist.rowcyc[r] = 1 /\ csv[r][1] = IpCell(clients[lst[2]].ip)
         /\ lst[1] \in hist.cycles[2].tried

\* C10: a link opened by the manual command is closed once the command has
\* finished, however it finished.
C10_ManualLinkClosed ==
  \A cid \in DOMAIN clients :
    (/\ clients[cid].w = 0
     /\ \A i \in DOMAIN tasks : ~(tasks[i].kind = "manual" /\ tasks[i].client = cid))
      => clients[cid].sock = "None"

\* C11: after closeEvent no link opened by an initialization run is open:
\* not that of a device whose identification response was empty, not one whose
\* configuration failed midway, not one of an active set that a later run
\* replaced.
C11_NoLinkOpenAfterClose ==
  hist.up = "closed" => \A cid \in RunClients : clients[cid].sock # "open"

\* The runs that have been started and have not reached Done.
NotDone == { w \in DOMAIN workers : workers[w].done = 0 }

\* C12: at most one initialization run has been started and has not reached
\* Done: start_initialize starts no run while another is not Done.
C12_OneRunAtATime == Cardinality(NotDone) <= 1

\* C13: the log is append-only: a record that is in the log stays in it,
\* unchanged and at its position, whatever step comes next.
C13_LogAppendOnly ==
  [][\A r \in DataRows(csv) : r \in DOMAIN csv' /\ csv'[r] = csv[r]]_vars

\* C14: once async_start_logging has started a timer the log has its header;
\* the first row of the log is the header, every other row is a data row
\* (that is, no cycle writes to a log without header and no cycle writes a
\* header), also after logging is started again.
C14_HeaderFirst ==
  /\ timers # <<>> => csv # <<>>
  /\ csv # <<>> => /\ csv[1] = fieldnames
                   /\ \A r \in 2..Len(csv) : r \in DataRows(csv)

\* Logging was started twice and a cycle has written a record since.
C14_Witness == Len(timers) = 2 /\ DataRows(csv) # {}

\* C15: a send_command call on a link that is not connected (no socket, or
\* the socket of a failed connect) connects first; every call that does not
\* fail writes once and then reads once, a call that fails raises
\* ConnectionError and has written at most once and read at most once.
C15_SendCommandContract ==
  LET call == hist.call
      n(op) == Cardinality({ k \in DOMAIN call.ops : call.ops[k] = op })
  IN  call.cid # 0 =>
        /\ call.sock # "open" => call.ops # <<>> /\ call.ops[1] = "connect"
        /\ n("connect") <= 1 /\ n("sendall") <= 1 /\ n("recv") <= 1
        /\ call.raised \in {"", "ConnectionError"}
        /\ call.raised = "" =>
             /\ n("sendall") = 1 /\ n("recv") = 1
             /\ call.ops[Len(call.ops)] = "recv" /\ call.ops[Len(call.ops) - 1] = "sendall"

\* C16: a load that fails because the file is not found, is not parsable or
\* has a record that lacks a required field is reported to the operator, the
\* program carries on, and the device list is what it was before the load.
C16_FailedLoadHandled ==
  hist.load.kind \in {"not found", "malformed", "missing field"} =>
    /\ hist.load.reported
    /\ hist.up # "aborted"
    /\ devices = hist.load.before

\* The lines whose effect depends on the channel selected on the link: the
\* mode-select, the setpoint of a Load channel and the measurement queries
\* (the setpoint commands of a Supply carry their channel number).
NeedsSelection(cmd) == cmd.op \notin {"*IDN?", "CHAN"} /\ cmd.number = -1

\* C17: on every link, each mode-select, setpoint and measurement query
\* issued for channel N was written while the last channel-select written on
\* that link named N; and every record labelled N was written while the last
\* channel-select on its link named N.
C17_CommandsUnderSelection ==
  /\ \A cid \in RunClients :
       LET c == clients[cid]
       IN  \A k \in DOMAIN c.sent :
             NeedsSelection(c.sent[k]) => Selected(c, k - 1) = c.issued[k]
  /\ \A r \in DataRows(csv) : csv[r][2] = NumberCell(hist.rowsel[r])

\* A link configured for two channels and then polled for both by each of
\* two cycles.
C17_Witness ==
  \E cid \in RunClients :
    /\ Len(clients[cid].channels) = 2
    /\ Cardinality({ r \in DataRows(csv) : csv[r][1] = IpCell(clients[cid].ip) }) = 4

\* C18: a link has at most one request written whose response has not been
\* read, whoever uses the link.
C18_OneOutstandingRequest ==
  \A cid \in DOMAIN clients : clients[cid].pending <= 1

\* A poll cycle awaits a response on a link of the active set while the
\* cycle of a later tick, which will use the same link, waits in the queue.
C18_Witness ==
  \E i, j \in LogTasks :
    /\ Started(tasks[i]) /\ tasks[i].io = "recv"
    /\ clients[LinkOf(tasks[i])].pending = 1
    /\ ~Started(tasks[j])

\* C19: the list that MainWindow.scpi_clients refers to, and the list that
\* any poll cycle has iterated, is the empty initial list or the list of a run
\* that has reached Done.
C19_LoggerReadsFinishedSet ==
  /\ scpi_clients # 0 => workers[scpi_clients].done = 1
  /\ \A y \in CyclesBegun :
       hist.cycles[y].w # 0 => workers[hist.cycles[y].w].done = 1

InActiveSet(cid) ==
  \E j \in DOMAIN workers[clients[cid].w].scpi_clients :
    workers[clients[cid].w].scpi_clients[j] = cid

\* C20: a link is in the active set of its run only if its identification
\* query was answered with a non-empty response; a link whose connect
\* failed, whose identification failed or was answered with an empty response
\* is never in the set, and nothing but the identification query was ever
\* written on it.
C20_ActiveOnlyIfIdentified ==
  \A cid \in RunClients :
    LET c == clients[cid]
    IN  /\ InActiveSet(cid) => c.idn = "resp"
        /\ (c.sock = "failed" \/ c.idn \in {"empty", "connfail", "sendfault", "recvfault"}) =>
             /\ ~InActiveSet(cid)
             /\ \A k \in DOMAIN c.sent : c.sent[k].op = "*IDN?"

\* A finished run in which one device answered the identification query with
\* an empty response and a later device was configured and is in the set.
C20_Witness ==
  \E a, b \in RunClients :
    /\ clients[a].w = clients[b].w /\ workers[clients[a].w].done = 1
    /\ clients[a].idx < clients[b].idx
    /\ clients[a].idn = "empty" /\ InActiveSet(b)

\* The lines an initialization has to write on the link of a Supply device:
\* the identification query, the indexed voltage-set command of every voltage
\* channel and then the indexed current-set command of every current channel.
ExpectedSupplyCommands(device) ==
  <<Cmd("*IDN?", "", -1, -1)>>
    \o [j \in DOMAIN device.voltage_channels |->
          Cmd("VOLT", "", device.voltage_channels[j].number, device.voltage_channels[j].value)]
    \o [j \in DOMAIN device.current_channels |->
          Cmd("CURR", "", device.current_channels[j].number, device.current_channels[j].value)]

\* C21: the lines written on the link of a Supply device during
\* initialization are the identification query, then one indexed voltage-set
\* command (number, value) per voltage channel in list order, then one indexed
\* current-set command per current channel in list order: always a prefix of
\* that sequence, the whole of it once configured, and never a channel-select
\* or a mode-select.
C21_SupplyCommandSequence ==
  \A cid \in RunClients :
    LET c == clients[cid]
    IN  DeviceOf(c).kind = "Supply" =>
          /\ IsPrefix(c.sent, ExpectedSupplyCommands(DeviceOf(c)))
          /\ c.ended = "configured" => c.sent = ExpectedSupplyCommands(DeviceOf(c))
          /\ \A k \in DOMAIN c.sent : c.sent[k].op \notin {"CHAN", "FUNC"}

\* The Supply device with voltage channels (1, 5), (2, 6) and current channel
\* (1, 1), configured.
C21_Witness ==
  \E cid \in RunClients :
    /\ clients[cid].ended = "configured"
    /\ clients[cid].sent =
         <<Cmd("*IDN?", "", -1, -1), Cmd("VOLT", "", 1, 5), Cmd("VOLT", "", 2, 6),
           Cmd("CURR", "", 1, 1)>>

\* The lines a complete initialization writes on the link of a device.
ExpectedCommands(device) ==
  IF device.kind = "Load" THEN ExpectedLoadCommands(device.channels)
  ELSE ExpectedSupplyCommands(device)

\* The identification query of link c was answered with a non-empty response
\* and every configuration command of its device was written and answered
\* without a transport fault.
FullyConfigured(c) ==
  /\ c.idn = "resp"
  /\ c.sent = ExpectedCommands(DeviceOf(c))
  /\ c.pending = 0
  /\ c.ended # "configuration failed"

\* C22: the active set of a finished run holds exactly the links of the
\* devices that were fully configured, in device-list order; in particular
\* a device that answered the identification query and then failed midway
\* through its configuration is not in it.  Before the run has finished its
\* list already holds fully configured links only, in device-list order.
C22_ActiveSetIsConfiguredDevices ==
  \A w \in DOMAIN workers :
    LET lst == workers[w].scpi_clients
    IN  /\ \A cid \in RunClients :
             clients[cid].w = w =>
               /\ InActiveSet(cid) => FullyConfigured(clients[cid])
               /\ (workers[w].done = 1 /\ FullyConfigured(clients[cid])) => InActiveSet(cid)
        /\ \A j, k \in DOMAIN lst : j < k => clients[lst[j]].idx < clients[lst[k]].idx

\* A finished run over three devices: the first and the third configured, the
\* second identified and then failed midway through its configuration.
C22_Witness ==
  \E w \in DOMAIN workers :
    /\ workers[w].done = 1 /\ Len(workers[w].scpi_clients) = 2
    /\ \E a, b, c \in RunClients :
         /\ clients[a].w = w /\ clients[b].w = w /\ clients[c].w = w
         /\ clients[a].idx = 1 /\ clients[b].idx = 2 /\ clients[c].idx = 3
         /\ workers[w].scpi_clients = <<a, c>>
         /\ clients[b].idn = "resp" /\ clients[b].ended = "configuration failed"
         /\ Len(clients[b].sent) > 1

\* The timers that are running.
ActiveTimers == { tm \in DOMAIN timers : timers[tm] }

\* C23: at most one polling timer is active at any time, and once
\* stop_logging has returned (and start_logging has not been called again)
\* none is.
C23_AtMostOneTimer ==
  /\ Cardinality(ActiveTimers) <= 1
  /\ hist.stopped => ActiveTimers = {}


====
